---- MODULE Spec2Model ----
(***************************************************************************)
(* Model of nimp's `package` command (src/nimp/commands/package.py): the   *)
(* four-step pipeline Package.run, the file stager _stage_file, the ini    *)
(* reader get_ini_value and the per-platform packaging strategies.         *)
(*                                                                         *)
(* Text is modelled as a sequence of tokens.  A token is one character or  *)
(* one indivisible piece of text (a marker, a replacement field, a name).  *)
(* A path is a tuple of strings, a file is a pair <<path, content>>.       *)
(***************************************************************************)
EXTENDS Naturals, Sequences, FiniteSets

\* ------------------------------------------------------------------ bounds
MaxConfigs == 2     \* atomic names in a '+'-joined configuration string
MaxRuns    == 2     \* invocations of the command against the same tree
MaxTextLen == 4     \* tokens of a staged source text
MaxIniLen  == 6     \* characters of an ini file
MaxKeyLen  == 2     \* characters of an ini key

\* --------------------------------------------------------------- helpers
Range(s) == { s[i] : i \in 1..Len(s) }

SeqsUpTo(S, n) == UNION { [1..k -> S] : k \in 0..n }

IsPrefixAt(pat, text, p) ==
    /\ p + Len(pat) - 1 <= Len(text)
    /\ \A i \in 1..Len(pat) : text[p + i - 1] = pat[i]

\* ----------------------------------------------------------- get_ini_value
NL == "\n"

\* '^' under re.MULTILINE: the start of the text or just after a newline.
LineStart(text, p) == p = 1 \/ (p > 1 /\ text[p - 1] = NL)

\* '(?P<value>.*?)$' under re.MULTILINE: the shortest run of non-newline
\* characters that ends at a newline or at the end of the text.
RECURSIVE RestOfLine(_, _)
RestOfLine(text, p) ==
    IF p > Len(text) \/ text[p] = NL THEN << >>
    ELSE << text[p] >> \o RestOfLine(text, p + 1)

\* re.search: the leftmost position where '^' + key + '=' matches.
RECURSIVE IniSearch(_, _, _)
IniSearch(text, key, p) ==
    IF p > Len(text) THEN 0
    ELSE IF LineStart(text, p) /\ IsPrefixAt(key \o << "=" >>, text, p) THEN p
    ELSE IniSearch(text, key, p + 1)

\* A mutant of get_ini_value: the pattern is not anchored at the line start.
RECURSIVE IniSearchAnywhere(_, _, _)
IniSearchAnywhere(text, key, p) ==
    IF p > Len(text) THEN 0
    ELSE IF IsPrefixAt(key \o << "=" >>, text, p) THEN p
    ELSE IniSearchAnywhere(text, key, p + 1)

get_ini_value_unanchored(ini_content, key) ==
    LET m == IniSearchAnywhere(ini_content, key, 1) IN
    IF m = 0 THEN [raised |-> "KeyError", value |-> << >>]
    ELSE [raised |-> "none", value |-> RestOfLine(ini_content, m + Len(key) + 1)]

get_ini_value(ini_content, key) ==
    LET m == IniSearch(ini_content, key, 1) IN
    IF m = 0 THEN [raised |-> "KeyError", value |-> << >>]
    ELSE [raised |-> "none", value |-> RestOfLine(ini_content, m + Len(key) + 1)]

\* ------------------------------------------------------------- _stage_file
StartMarker == "<!-- #if Debug -->"
EndMarker   == "<!-- #endif Debug -->"
ConfigField == "{configuration}"
OtherField  == "{other}"

\* str.lower on the names the model uses.
Lower(s) ==
    CASE s = "Debug"    -> "debug"
      [] s = "Shipping" -> "shipping"
      [] s = "Game"     -> "game"
      [] s = "Binaries" -> "binaries"
      [] s = "PS4"      -> "ps4"
      [] s = "XboxOne"  -> "xboxone"
      [] OTHER          -> s

\* str.format(configuration = value): the {configuration} field is replaced,
\* any other replacement field raises KeyError, other text is kept.
FormatRaises(text) == \E i \in 1..Len(text) : text[i] = OtherField

Format(text, value) ==
    [ i \in 1..Len(text) |-> IF text[i] = ConfigField THEN value ELSE text[i] ]

\* Position of the first token t at or after p, 0 when there is none.
RECURSIVE Find(_, _, _)
Find(text, t, p) ==
    IF p > Len(text) THEN 0
    ELSE IF text[p] = t THEN p
    ELSE Find(text, t, p + 1)

\* re.sub(r'<!-- #if Debug -->(.*?)<!-- #endif Debug -->', '', text, 0,
\* re.DOTALL): scanning left to right, every start marker together with the
\* text up to the nearest end marker after it is removed; the scan resumes
\* after the removed span; text with no further match is kept as it is.
RECURSIVE StripDebug(_, _)
StripDebug(text, p) ==
    LET s == Find(text, StartMarker, p)
        e == IF s = 0 THEN 0 ELSE Find(text, EndMarker, s + 1)
    IN  IF p > Len(text) THEN << >>
        ELSE IF s = 0 \/ e = 0 THEN SubSeq(text, p, Len(text))
        ELSE SubSeq(text, p, s - 1) \o StripDebug(text, e + 1)

\* A mutant of StageFileContent: the release tier is never recognised.
StageFileContentNoStrip(file_content, platform, configuration) ==
    Format(file_content, IF platform # "PS4" THEN configuration ELSE Lower(configuration))

\* A mutant of StageFileContent: the debug spans are removed for every tier.
StageFileContentAlwaysStrip(file_content, platform, configuration) ==
    StripDebug(Format(file_content,
                      IF platform # "PS4" THEN configuration ELSE Lower(configuration)), 1)

\* Variant of StageFileContent that lower-cases the configuration name on no
\* platform.
StageFileContentNeverLower(file_content, platform, configuration) ==
    LET formatted == Format(file_content, configuration)
    IN  IF configuration = "Shipping" THEN StripDebug(formatted, 1) ELSE formatted

\* The text _stage_file writes when apply_transform is true.
StageFileContent(file_content, platform, configuration) ==
    LET formatted == Format(file_content,
                            IF platform # "PS4" THEN configuration
                            ELSE Lower(configuration))
    IN  IF configuration = "Shipping" THEN StripDebug(formatted, 1) ELSE formatted

\* _stage_file as a function of the source text: what is written, or the
\* error raised before anything is written.
stage_file(file_content, apply_transform, platform, configuration) ==
    IF ~apply_transform THEN [raised |-> "none", written |-> file_content]
    ELSE IF FormatRaises(file_content) THEN [raised |-> "KeyError", written |-> << >>]
    ELSE [raised |-> "none",
          written |-> StageFileContent(file_content, platform, configuration)]

\* A mutant of Split: only the first atomic name is kept.
SplitFirstOnly(s) == << s[1] >>

\* ------------------------------------------------- configuration.split('+')
RECURSIVE Split(_)
Split(s) ==
    LET plus == Find(s, "+", 1)
        Piece(t) == IF t = << >> THEN "" ELSE t[1]
    IN  IF plus = 0 THEN << Piece(s) >>
        ELSE << Piece(SubSeq(s, 1, plus - 1)) >> \o Split(SubSeq(s, plus + 1, Len(s)))


\* ------------------------------------------------------------ file system
DirMark == << "<dir>" >>

Paths(fs)         == { f[1] : f \in fs }
Exists(fs, p)     == p \in Paths(fs)
Remove(fs, p)     == { f \in fs : f[1] # p }
Write(fs, p, c)   == Remove(fs, p) \cup { << p, c >> }
Content(fs, p)    == (CHOOSE f \in fs : f[1] = p)[2]
\* os.listdir: the names directly inside directory d.
ListDir(fs, d)    == { p[Len(d) + 1] : p \in { q \in Paths(fs) :
                          Len(q) = Len(d) + 1 /\ SubSeq(q, 1, Len(d)) = d } }

\* --------------------------------------------------------------- the inputs
Steps            == << "initialize", "cook", "stage", "package" >>
DesktopPlatforms == { "Linux", "Mac", "Win32", "Win64" }
Platforms        == { "Win64", "XboxOne", "PS4", "Switch" }
ConfigNames      == { "Debug", "Shipping" }
Game             == "Game"

\* The '+'-joined strings of 1..MaxConfigs atomic names.
RECURSIVE Join(_)
Join(names) ==
    IF Len(names) = 1 THEN << names[1] >>
    ELSE << names[1], "+" >> \o Join(Tail(names))

ConfigStrings ==
    { Join(names) : names \in UNION { [1..k -> ConfigNames] : k \in 1..MaxConfigs } }

\* A selection of steps as the command line gives it: any non-empty subset,
\* listed in the pipeline's order or against it.
Reverse(s) == [ i \in 1..Len(s) |-> s[Len(s) + 1 - i] ]

SubSeqsOf(s) ==
    { SelectSeq(s, LAMBDA x : x \in keep) : keep \in SUBSET Range(s) } \ { << >> }

StepSelections == SubSeqsOf(Steps) \cup SubSeqsOf(Reverse(Steps))

ManifestSource == << ConfigField, StartMarker, "dbg", EndMarker, "app" >>
LayoutSource   == << "chunks", StartMarker, "symbols", EndMarker, ConfigField >>

GoodIni == << "ProductId", "=", "P1", NL, "ContentId", "=", "C1", NL, "TitleID", "=", "T1" >>
BadIni  == << "ProductId", "=", "P1", NL, "XContentId", "=", "C1", NL, "TitleIDs", "=", "T1" >>

\* ---------------------------------------------------------------- state
VARIABLES
    steps, platform, configuration, target, layout, patch,   \* env.* arguments
    environ, ini_content,                                    \* os.environ, engine ini
    destination_locked,                    \* a file of the destination cannot be removed
    pc, raised, entered, calls, run,
    stage, destination_exists, destination,                  \* the two directories
    idx, manifest_file_collection, package_success,          \* locals of the loops
    destination_before,
    gi_text, gi_key, gi_result,                              \* get_ini_value alone
    sf_text, sf_transform, sf_platform, sf_config, sf_result, \* _stage_file alone
    platforms, platforms_revisions, start_revision, lr_result \* get_latest_available_revision

inputs   == << steps, platform, configuration, target, layout, patch, environ,
              ini_content, destination_locked >>
control  == << pc, raised, entered, calls, run >>
files    == << stage, destination_exists, destination >>
locals   == << idx, manifest_file_collection, package_success, destination_before >>
gi_vars  == << gi_text, gi_key, gi_result >>
sf_vars  == << sf_text, sf_transform, sf_platform, sf_config, sf_result >>
lr_vars  == << platforms, platforms_revisions, start_revision, lr_result >>
vars     == << inputs, control, files, locals, gi_vars, sf_vars, lr_vars >>

\* `step in env.steps`
Selected(step) == step \in Range(steps)
Console == platform \in { "XboxOne", "PS4" }

configurations == Split(configuration)
current_configuration == configurations[idx]
ue4_cmd_platform == IF platform = "Win64" THEN "WindowsNoEditor" ELSE platform


\* pak_file_name of _stage: '<project>-<platform token>.pak'.
pak_file_name == << Game, "-", ue4_cmd_platform, ".pak" >>

\* The release a patch is based on: the version given as the patch argument.
PatchVersion == "V1"

\* The platform tokens releases are kept under.
ReleaseTokens == { "WindowsNoEditor", "XboxOne", "PS4", "Switch" }

\* The content of the pak file of the release for a platform token.
ReleasePak(token) == << "release", token, ConfigField, StartMarker, "v1", EndMarker >>

\* The project's Releases directory: with the pak files of the release for
\* every platform token, or without the release.
ReleaseTree(has_release) ==
    IF has_release
    THEN { << << "Releases", PatchVersion, t, Game, "-", t, ".pak" >>, ReleasePak(t) >>
           : t \in ReleaseTokens }
    ELSE {}

\* release_directory of _stage.
release_directory == << "Releases", PatchVersion, ue4_cmd_platform >>

\* An invocation of an external tool or copier: its name, the atomic
\* configuration it is for ("" when for none), its exit status (bulk copies
\* and hooks: 0 for success, 1 for failure) and the artifact it is to write.
Call(tool, cfg, exit, out) == [ tool |-> tool, cfg |-> cfg, exit |-> exit, out |-> out ]

ExitCodes == { 0, 1 }

\* `raise`: the exception leaves Package.run.
Raise(error) == pc' = "raised" /\ raised' = error

\* What an earlier, complete stage step of the same command line left in the
\* stage directory (the package step can be run on its own).
StagedTree ==
    IF platform = "XboxOne"
    THEN UNION { { << << "Manifests", c >>, DirMark >>,
                   << << "Manifests", c, "AppxManifest.xml" >>,
                      StageFileContent(ManifestSource, "XboxOne", c) >>,
                   << << "Manifests", c, "appdata.bin" >>, << "appdata" >> >> }
                 : c \in Range(configurations) }
         \cup { << << "era.xvd" >>, << "gameos" >> >> }
    ELSE { << << Game, "Content", "Paks" >> \o pak_file_name, << "staged pak" >> >> }

\* ------------------------------------------------------------------- Init
\* get_latest_available_revision is not being called.
RevisionIdle ==
    /\ platforms = {} /\ platforms_revisions = << >>
    /\ start_revision = [given |-> FALSE, value |-> << >>]
    /\ lr_result = [state |-> "none", found |-> FALSE, revision |-> << >>]

PureIdle ==
    /\ gi_text = << >> /\ gi_key = << >> /\ gi_result = [raised |-> "none", value |-> << >>]
    /\ sf_text = << >> /\ sf_transform = FALSE /\ sf_platform = "" /\ sf_config = ""
    /\ sf_result = [raised |-> "none", written |-> << >>]
    /\ RevisionIdle

PipelineIdle ==
    /\ steps = << >> /\ platform = "" /\ configuration = << >>
    /\ target = FALSE /\ layout = FALSE /\ patch = FALSE
    /\ environ = {} /\ ini_content = << >> /\ destination_locked = FALSE
    /\ pc = "idle" /\ raised = "none" /\ entered = << >> /\ calls = << >> /\ run = 0
    /\ stage = {} /\ destination_exists = FALSE /\ destination = {}
    /\ idx = 0 /\ manifest_file_collection = {} /\ package_success = 0
    /\ destination_before = {}

\* The state when the command starts.  An argument, environment variable or
\* file that the selected steps never read is left at its default.
Init ==
    /\ steps \in StepSelections
    /\ platform \in Platforms
    /\ configuration \in ConfigStrings
    /\ target \in IF Selected("initialize") THEN BOOLEAN ELSE { FALSE }
    /\ layout \in IF Selected("stage") THEN BOOLEAN ELSE { FALSE }
    /\ patch \in IF Selected("stage") THEN BOOLEAN ELSE { FALSE }
    /\ environ \in IF Console /\ (Selected("stage") \/ Selected("package"))
                   THEN { {}, { "DurangoXDK", "SCE_ROOT_DIR" } }
                   ELSE { {} }
    /\ ini_content \in IF Console /\ Selected("package") /\ environ # {}
                       THEN { GoodIni, BadIni }
                       ELSE { GoodIni }
    /\ pc = "run_initialize" /\ raised = "none" /\ entered = << >> /\ calls = << >>
    /\ run = 1
    /\ stage \in IF Selected("package") /\ ~Selected("stage")
                 THEN { {}, StagedTree }
                 ELSE { StagedTree }
    /\ IF Selected("package")
       THEN \/ destination_exists = FALSE /\ destination = {}
            \/ destination_exists = TRUE  /\ destination = { << << "stale" >>, 0 >> }
       ELSE destination_exists = FALSE /\ destination = {}
    /\ destination_locked \in IF destination_exists THEN BOOLEAN ELSE { FALSE }
    /\ idx = 0 /\ manifest_file_collection = {} /\ package_success = 0
    /\ destination_before = {}
    /\ PureIdle

\* ------------------------------------------------------------ initialize
\* A mutant of InitializeCopy: the result of the bulk copy is not checked.
InitializeCopyUnchecked ==
    /\ pc = "run_initialize"
    /\ IF Selected("initialize")
       THEN /\ entered' = Append(entered, "initialize")
            /\ pc' = "initialize_hook"
            /\ UNCHANGED raised
            /\ IF target
               THEN \E configuration_success \in BOOLEAN :
                      calls' = Append(calls, Call("robocopy Config", "",
                                    IF configuration_success THEN 0 ELSE 1, << "Config" >>))
               ELSE UNCHANGED calls
       ELSE pc' = "run_cook" /\ UNCHANGED << raised, entered, calls >>
    /\ UNCHANGED << inputs, run, files, locals, gi_vars, sf_vars, lr_vars >>

\* run, line 79, and the bulk copy of _initialize.
InitializeCopy ==
    /\ pc = "run_initialize"
    /\ IF Selected("initialize")
       THEN /\ entered' = Append(entered, "initialize")
            /\ IF target
               THEN \E configuration_success \in BOOLEAN :
                      /\ calls' = Append(calls, Call("robocopy Config", "",
                                    IF configuration_success THEN 0 ELSE 1, << "Config" >>))
                      /\ IF ~configuration_success
                         THEN Raise("Initialize failed")
                         ELSE pc' = "initialize_hook" /\ UNCHANGED raised
               ELSE pc' = "initialize_hook" /\ UNCHANGED << raised, calls >>
       ELSE pc' = "run_cook" /\ UNCHANGED << raised, entered, calls >>
    /\ UNCHANGED << inputs, run, files, locals, gi_vars, sf_vars, lr_vars >>

\* The pre-ship hook of _initialize.
InitializeHook ==
    /\ pc = "initialize_hook"
    /\ \E hook_success \in BOOLEAN :
         /\ calls' = Append(calls, Call("preship", "", IF hook_success THEN 0 ELSE 1, << >>))
         /\ IF ~hook_success
            THEN Raise("Initialize failed")
            ELSE pc' = "run_cook" /\ UNCHANGED raised
    /\ UNCHANGED << inputs, entered, run, files, locals, gi_vars, sf_vars, lr_vars >>

\* ------------------------------------------------------------------ cook
\* A mutant of Cook: the step runs whether or not it was selected.
CookUnselected ==
    /\ pc = "run_cook"
    /\ entered' = Append(entered, "cook")
    /\ \E cook_success \in ExitCodes :
         /\ calls' = Append(calls, Call("UE4Editor-Cmd", "", cook_success, << >>))
         /\ IF cook_success # 0
            THEN Raise("Cook failed")
            ELSE pc' = "run_stage" /\ UNCHANGED raised
    /\ UNCHANGED << inputs, run, files, locals, gi_vars, sf_vars, lr_vars >>

\* A mutant of Cook: the exit status of the cook is not checked.
CookIgnoringStatus ==
    /\ pc = "run_cook"
    /\ IF Selected("cook")
       THEN /\ entered' = Append(entered, "cook")
            /\ \E cook_success \in ExitCodes :
                 calls' = Append(calls, Call("UE4Editor-Cmd", "", cook_success, << >>))
       ELSE UNCHANGED << entered, calls >>
    /\ pc' = "run_stage"
    /\ UNCHANGED << inputs, raised, run, files, locals, gi_vars, sf_vars, lr_vars >>

\* run, line 81, and _cook.
Cook ==
    /\ pc = "run_cook"
    /\ IF Selected("cook")
       THEN /\ entered' = Append(entered, "cook")
            /\ \E cook_success \in ExitCodes :
                 /\ calls' = Append(calls, Call("UE4Editor-Cmd", "", cook_success, << >>))
                 /\ IF cook_success # 0
                    THEN Raise("Cook failed")
                    ELSE pc' = "run_stage" /\ UNCHANGED raised
       ELSE pc' = "run_stage" /\ UNCHANGED << raised, entered, calls >>
    /\ UNCHANGED << inputs, run, files, locals, gi_vars, sf_vars, lr_vars >>


\* Variant of BinaryPath that lower-cases the path on both consoles.
BinaryPathLowered ==
    IF platform = "PS4"
    THEN << Lower(Game), Lower("Binaries"), Lower("PS4"), Lower(Game) >>
    ELSE << Lower(Game), Lower("Binaries"), Lower("XboxOne"), Lower(Game) >>

\* ----------------------------------------------------------------- stage
\* binary_path of _stage: the directories and the base name of the binary.
BinaryPath ==
    IF platform = "PS4"
    THEN << Lower(Game), Lower("Binaries"), Lower("PS4"), Lower(Game) >>
    ELSE << Game, "Binaries", "XboxOne", Game >>

BinaryExt == IF platform = "PS4" THEN ".self" ELSE ".exe"

BinarySuffix == IF platform = "PS4" THEN "-ps4-development" ELSE "-XboxOne-Development"

\* What the engine's staging command leaves in the stage directory on
\* success: it cleans the directory and writes the staged build with its pak
\* file, on XboxOne with an auto-generated manifest and app-data file; some
\* configurations produce no binary, the others have it where _stage looks
\* for it.
GeneratedTree(has_binary) ==
    { << << Game, "Content", "Paks" >> \o pak_file_name, << "staged pak" >> >> }
    \cup (IF platform = "XboxOne"
          THEN { << << "AppxManifest.xml" >>, << "generated" >> >>,
                 << << "appdata.bin" >>, << "generated" >> >>,
                 << << "era.xvd" >>, << "gameos" >> >> }
          ELSE {})
    \cup (IF has_binary /\ platform \in { "PS4", "XboxOne" }
          THEN { << BinaryPath \o << "", BinaryExt >>, << "binary" >> >> }
          ELSE {})

\* Variant of StageCommand that goes on to the post-staging actions whatever
\* the exit status of the staging command.
StageCommandIgnoringStatus ==
    /\ pc = "run_stage"
    /\ IF Selected("stage")
       THEN /\ entered' = Append(entered, "stage")
            /\ \E stage_success \in ExitCodes, has_binary \in BOOLEAN :
                 /\ calls' = Append(calls, Call("AutomationTool", "", stage_success, << >>))
                 /\ stage' = GeneratedTree(has_binary)
                 /\ pc' = IF platform = "XboxOne" THEN "stage_xbox_manifest"
                          ELSE "stage_layout"
                 /\ UNCHANGED raised
       ELSE pc' = "run_package" /\ UNCHANGED << raised, entered, calls, stage >>
    /\ UNCHANGED << inputs, run, destination_exists, destination, locals, gi_vars, sf_vars, lr_vars >>

\* run, line 83, and _stage up to the check of the staging command's status.
StageCommand ==
    /\ pc = "run_stage"
    /\ IF Selected("stage")
       THEN /\ entered' = Append(entered, "stage")
            /\ \E stage_success \in ExitCodes, has_binary \in BOOLEAN :
                 /\ calls' = Append(calls, Call("AutomationTool", "", stage_success, << >>))
                 /\ IF stage_success # 0
                    THEN Raise("Stage failed") /\ UNCHANGED stage
                    ELSE /\ stage' = GeneratedTree(has_binary)
                         /\ pc' = IF platform = "XboxOne" THEN "stage_xbox_manifest"
                                  ELSE "stage_layout"
                         /\ UNCHANGED raised
       ELSE pc' = "run_package" /\ UNCHANGED << raised, entered, calls, stage >>
    /\ UNCHANGED << inputs, run, destination_exists, destination, locals, gi_vars, sf_vars, lr_vars >>

\* _stage_xbox_manifest, lines 172-175: the auto-generated files are removed.
StageXboxRemoveGenerated ==
    /\ pc = "stage_xbox_manifest"
    /\ IF Exists(stage, << "AppxManifest.xml" >>) /\ Exists(stage, << "appdata.bin" >>)
       THEN /\ stage' = Remove(Remove(stage, << "AppxManifest.xml" >>), << "appdata.bin" >>)
            /\ idx' = 1
            /\ pc' = "stage_xbox_configuration"
            /\ UNCHANGED raised
       ELSE Raise("FileNotFoundError") /\ UNCHANGED << stage, idx >>
    /\ UNCHANGED << inputs, entered, calls, run, destination_exists, destination,
                    manifest_file_collection, package_success, destination_before,
                    gi_vars, sf_vars, lr_vars >>

\* Variant of StageXboxConfiguration that goes on to the next configuration
\* whatever the exit status of the app-data command.
StageXboxConfigurationContinuing ==
    /\ pc = "stage_xbox_configuration"
    /\ LET current_stage_directory == << "Manifests", current_configuration >>
           manifest == current_stage_directory \o << "AppxManifest.xml" >>
           staged   == stage_file(ManifestSource, TRUE, "XboxOne", current_configuration)
           made     == Write(stage, current_stage_directory, DirMark)
           written  == Write(made, manifest, staged.written)
       IN  IF Exists(stage, current_stage_directory)
           THEN Raise("FileExistsError") /\ UNCHANGED << stage, calls, idx >>
           ELSE IF staged.raised # "none"
           THEN Raise(staged.raised) /\ stage' = made /\ UNCHANGED << calls, idx >>
           ELSE IF "DurangoXDK" \notin environ
           THEN Raise("KeyError") /\ stage' = written /\ UNCHANGED << calls, idx >>
           ELSE \E appdata_success \in ExitCodes :
                  /\ calls' = Append(calls, Call("MakePkg appdata", current_configuration,
                                                 appdata_success, current_stage_directory))
                  /\ stage' = IF appdata_success # 0 THEN written
                              ELSE Write(written,
                                         current_stage_directory \o << "appdata.bin" >>,
                                         << "appdata" >>)
                  /\ UNCHANGED raised
                  /\ IF idx < Len(configurations)
                     THEN idx' = idx + 1 /\ pc' = "stage_xbox_configuration"
                     ELSE idx' = 0 /\ pc' = "stage_chunks"
    /\ UNCHANGED << inputs, entered, run, destination_exists, destination,
                    manifest_file_collection, package_success, destination_before,
                    gi_vars, sf_vars, lr_vars >>

\* One iteration of the loop of _stage_xbox_manifest, lines 176-190.
StageXboxConfiguration ==
    /\ pc = "stage_xbox_configuration"
    /\ LET current_stage_directory == << "Manifests", current_configuration >>
           manifest == current_stage_directory \o << "AppxManifest.xml" >>
           staged   == stage_file(ManifestSource, TRUE, "XboxOne", current_configuration)
           made     == Write(stage, current_stage_directory, DirMark)
           written  == Write(made, manifest, staged.written)
       IN  IF Exists(stage, current_stage_directory)
           THEN Raise("FileExistsError") /\ UNCHANGED << stage, calls, idx >>
           ELSE IF staged.raised # "none"
           THEN Raise(staged.raised) /\ stage' = made /\ UNCHANGED << calls, idx >>
           ELSE IF "DurangoXDK" \notin environ
           THEN Raise("KeyError") /\ stage' = written /\ UNCHANGED << calls, idx >>
           ELSE \E appdata_success \in ExitCodes :
                  /\ calls' = Append(calls, Call("MakePkg appdata", current_configuration,
                                                 appdata_success, current_stage_directory))
                  /\ IF appdata_success # 0
                     THEN Raise("Stage failed") /\ stage' = written /\ UNCHANGED idx
                     ELSE /\ stage' = Write(written,
                                            current_stage_directory \o << "appdata.bin" >>,
                                            << "appdata" >>)
                          /\ UNCHANGED raised
                          /\ IF idx < Len(configurations)
                             THEN idx' = idx + 1 /\ pc' = "stage_xbox_configuration"
                             ELSE idx' = 0 /\ pc' = "stage_chunks"
    /\ UNCHANGED << inputs, entered, run, destination_exists, destination,
                    manifest_file_collection, package_success, destination_before,
                    gi_vars, sf_vars, lr_vars >>

\* Variant of StageChunks that creates only the first of the two chunk files.
StageChunksLaunchOnly ==
    /\ pc = "stage_chunks"
    /\ stage' = Write(stage, << "LaunchChunk.bin" >>, << "\\0" >>)
    /\ pc' = "stage_layout"
    /\ UNCHANGED << inputs, raised, entered, calls, run, destination_exists, destination,
                    locals, gi_vars, sf_vars, lr_vars >>

\* _stage, lines 140-144: the dummy files for empty chunks.
StageChunks ==
    /\ pc = "stage_chunks"
    /\ stage' = Write(Write(stage, << "LaunchChunk.bin" >>, << "\\0" >>),
                      << "AlignmentChunk.bin" >>, << "\\0" >>)
    /\ pc' = "stage_layout"
    /\ UNCHANGED << inputs, raised, entered, calls, run, destination_exists, destination,
                    locals, gi_vars, sf_vars, lr_vars >>

layout_ext == IF platform = "PS4" THEN ".gp4" ELSE ".xml"

\* The layout file of one atomic configuration, in the stage directory.
LayoutFile(c) == << Game, "-", c, layout_ext >>

RECURSIVE StageLayouts(_, _)
StageLayouts(fs, cs) ==
    IF cs = << >> THEN fs
    ELSE StageLayouts(Write(fs, LayoutFile(Head(cs)),
                            stage_file(LayoutSource, TRUE, platform, Head(cs)).written),
                      Tail(cs))

\* _stage, lines 146-150: one layout file per atomic configuration.
StageLayout ==
    /\ pc = "stage_layout"
    /\ stage' = IF layout THEN StageLayouts(stage, configurations) ELSE stage
    /\ pc' = "stage_rename"
    /\ UNCHANGED << inputs, raised, entered, calls, run, destination_exists, destination,
                    locals, gi_vars, sf_vars, lr_vars >>

\* Variant of StageRename that moves the binary without testing that it
\* exists.
StageRenameUnchecked ==
    /\ pc = "stage_rename"
    /\ LET plain   == BinaryPath \o << "", BinaryExt >>
           renamed == BinaryPath \o << BinarySuffix, BinaryExt >>
       IN  IF platform \in { "PS4", "XboxOne" }
           THEN IF Exists(stage, plain)
                THEN /\ stage' = Write(Remove(stage, plain), renamed, Content(stage, plain))
                     /\ pc' = "stage_patch" /\ UNCHANGED raised
                ELSE Raise("FileNotFoundError") /\ UNCHANGED stage
           ELSE pc' = "stage_patch" /\ UNCHANGED << stage, raised >>
    /\ UNCHANGED << inputs, entered, calls, run, destination_exists, destination,
                    locals, gi_vars, sf_vars, lr_vars >>

\* _stage, lines 152-160: the binary gets its console name, if there is one.
StageRename ==
    /\ pc = "stage_rename"
    /\ LET plain   == BinaryPath \o << "", BinaryExt >>
           renamed == BinaryPath \o << BinarySuffix, BinaryExt >>
       IN  IF platform \in { "PS4", "XboxOne" } /\ Exists(stage, plain)
           THEN stage' = Write(Remove(stage, plain), renamed, Content(stage, plain))
           ELSE UNCHANGED stage
    /\ pc' = "stage_patch"
    /\ UNCHANGED << inputs, raised, entered, calls, run, destination_exists, destination,
                    locals, gi_vars, sf_vars, lr_vars >>

\* Variant of StagePatch that stages the release pak with the text
\* transformation of the layout and manifest files.
StagePatchTransformed ==
    /\ pc = "stage_patch"
    /\ IF patch
       THEN \E has_release \in BOOLEAN :
              LET source == release_directory \o pak_file_name
              IN  IF Exists(ReleaseTree(has_release), source)
                  THEN /\ stage' = Write(stage, << Game, "Content", "Paks" >> \o pak_file_name,
                                         stage_file(Content(ReleaseTree(has_release), source),
                                                    TRUE, platform, "Shipping").written)
                       /\ pc' = "run_package"
                       /\ UNCHANGED raised
                  ELSE Raise("FileNotFoundError") /\ UNCHANGED stage
       ELSE pc' = "run_package" /\ UNCHANGED << stage, raised >>
    /\ UNCHANGED << inputs, entered, calls, run, destination_exists, destination,
                    locals, gi_vars, sf_vars, lr_vars >>

\* _stage, lines 162-167: the release's pak file completes a patch.
StagePatch ==
    /\ pc = "stage_patch"
    /\ IF patch
       THEN \E has_release \in BOOLEAN :
              LET source == release_directory \o pak_file_name
              IN  IF Exists(ReleaseTree(has_release), source)
                  THEN /\ stage' = Write(stage, << Game, "Content", "Paks" >> \o pak_file_name,
                                         stage_file(Content(ReleaseTree(has_release), source),
                                                    FALSE, "", "").written)
                       /\ pc' = "run_package"
                       /\ UNCHANGED raised
                  ELSE Raise("FileNotFoundError") /\ UNCHANGED stage
       ELSE pc' = "run_package" /\ UNCHANGED << stage, raised >>
    /\ UNCHANGED << inputs, entered, calls, run, destination_exists, destination,
                    locals, gi_vars, sf_vars, lr_vars >>


\* --------------------------------------------------------------- package
\* A file of the package directory is a pair <<path, run>>: the path and the
\* invocation of the command that wrote it (0: before the first one).
Stamp(paths) == { << p, run >> : p \in paths }

\* Variant of PackageRecreate that empties the destination for the desktop
\* platforms only, as if the removal came after the platform dispatch.
PackageRecreateDesktopOnly ==
    /\ pc = "run_package"
    /\ IF Selected("package")
       THEN /\ entered' = Append(entered, "package")
            /\ destination_before' = destination
            /\ IF destination_exists /\ destination_locked
               THEN /\ Raise("FileExistsError")
                    /\ UNCHANGED << destination_exists, destination >>
               ELSE /\ destination_exists' = TRUE
                    /\ destination' = IF platform \in DesktopPlatforms THEN {}
                                      ELSE destination
                    /\ pc' = "package_dispatch"
                    /\ UNCHANGED raised
       ELSE /\ pc' = "done"
            /\ UNCHANGED << raised, entered, destination_exists, destination,
                            destination_before >>
    /\ UNCHANGED << inputs, calls, run, stage, idx, manifest_file_collection,
                    package_success, gi_vars, sf_vars, lr_vars >>

\* A mutant of PackageRecreate: an existing destination is kept and merged into.
PackageRecreateKeeping ==
    /\ pc = "run_package"
    /\ IF Selected("package")
       THEN /\ entered' = Append(entered, "package")
            /\ destination_before' = destination
            /\ destination_exists' = TRUE
            /\ pc' = "package_dispatch"
            /\ UNCHANGED << raised, destination >>
       ELSE /\ pc' = "done"
            /\ UNCHANGED << raised, entered, destination_exists, destination,
                            destination_before >>
    /\ UNCHANGED << inputs, calls, run, stage, idx, manifest_file_collection,
                    package_success, gi_vars, sf_vars, lr_vars >>

\* run, line 85, and _package_for_platform, lines 213-219: the destination
\* is removed if present (errors ignored) and made again.
PackageRecreate ==
    /\ pc = "run_package"
    /\ IF Selected("package")
       THEN /\ entered' = Append(entered, "package")
            /\ destination_before' = destination
            /\ IF destination_exists /\ destination_locked
               THEN \* rmtree fails, silently; makedirs finds the directory
                    /\ Raise("FileExistsError")
                    /\ UNCHANGED << destination_exists, destination >>
               ELSE /\ destination_exists' = TRUE
                    /\ destination' = {}
                    /\ pc' = "package_dispatch"
                    /\ UNCHANGED raised
       ELSE /\ pc' = "done"
            /\ UNCHANGED << raised, entered, destination_exists, destination,
                            destination_before >>
    /\ UNCHANGED << inputs, calls, run, stage, idx, manifest_file_collection,
                    package_success, gi_vars, sf_vars, lr_vars >>

\* Lines 221-226: the desktop platforms copy the staged tree.
PackageDesktop ==
    /\ pc = "package_dispatch"
    /\ platform \in DesktopPlatforms
    /\ \E package_success_ \in BOOLEAN :
         /\ calls' = Append(calls, Call("robocopy package", "",
                                        IF package_success_ THEN 0 ELSE 1, << >>))
         /\ IF package_success_
            THEN /\ destination' = Stamp(Paths(stage))
                 /\ pc' = "done"
                 /\ UNCHANGED raised
            ELSE Raise("Package failed") /\ UNCHANGED destination
    /\ UNCHANGED << inputs, entered, run, stage, destination_exists, locals,
                    gi_vars, sf_vars, lr_vars >>

IniValue(key) == get_ini_value(ini_content, << key >>)

\* The value as one name: the model's ini values are single tokens.
Token(value) == IF value = << >> THEN "" ELSE value[1]

\* Lines 228-233: the XboxOne tool and identifiers.
PackageXboxSetup ==
    /\ pc = "package_dispatch"
    /\ platform \notin DesktopPlatforms
    /\ platform = "XboxOne"
    /\ IF "DurangoXDK" \notin environ
       THEN Raise("KeyError") /\ UNCHANGED idx
       ELSE IF IniValue("ProductId").raised # "none"
       THEN Raise(IniValue("ProductId").raised) /\ UNCHANGED idx
       ELSE IF IniValue("ContentId").raised # "none"
       THEN Raise(IniValue("ContentId").raised) /\ UNCHANGED idx
       ELSE idx' = 1 /\ pc' = "xbox_begin" /\ UNCHANGED raised
    /\ UNCHANGED << inputs, entered, calls, run, files, manifest_file_collection,
                    package_success, destination_before, gi_vars, sf_vars, lr_vars >>

\* Lines 236-251: the destination of one configuration is made and its
\* manifest files are copied up into the stage directory.
XboxBegin ==
    /\ pc = "xbox_begin"
    /\ LET current_destination == << current_configuration >>
           manifests  == << "Manifests", current_configuration >>
           listed     == ListDir(stage, manifests)
           Copy(names) == { << << n >>, Content(stage, manifests \o << n >>) >> : n \in names }
       IN  IF Exists(destination, current_destination)
           THEN /\ Raise("FileExistsError")
                /\ UNCHANGED << destination, stage, manifest_file_collection >>
           ELSE /\ destination' = destination \cup Stamp({ current_destination })
                /\ IF ~Exists(stage, manifests)
                   THEN Raise("FileNotFoundError") /\ UNCHANGED << stage, manifest_file_collection >>
                   ELSE /\ manifest_file_collection' = listed
                        /\ \E copied \in SUBSET listed :
                             /\ stage' = { f \in stage : f[1] \notin Paths(Copy(copied)) }
                                         \cup Copy(copied)
                             /\ IF copied # listed
                                THEN Raise("OSError")
                                ELSE pc' = "xbox_call" /\ UNCHANGED raised
    /\ UNCHANGED << inputs, entered, calls, run, destination_exists, idx,
                    package_success, destination_before, gi_vars, sf_vars, lr_vars >>

\* Line 252: the packaging tool runs.
XboxCall ==
    /\ pc = "xbox_call"
    /\ \E status \in ExitCodes :
         /\ package_success' = status
         /\ calls' = Append(calls, Call("MakePkg pack", current_configuration, status,
                                        << current_configuration >>))
         /\ destination' = IF status = 0
                           THEN destination \cup Stamp({ << current_configuration, "package" >> })
                           ELSE destination
    /\ pc' = "xbox_cleanup"
    /\ UNCHANGED << inputs, raised, entered, run, stage, destination_exists, idx,
                    manifest_file_collection, destination_before, gi_vars, sf_vars, lr_vars >>

\* A mutant of XboxCleanup: the copies are removed only after a success.
XboxCleanupOnSuccess ==
    /\ pc = "xbox_cleanup"
    /\ stage' = IF package_success = 0
                THEN { f \in stage : f[1] \notin { << n >> : n \in manifest_file_collection } }
                ELSE stage
    /\ pc' = "xbox_check"
    /\ UNCHANGED << inputs, raised, entered, calls, run, destination_exists, destination,
                    locals, gi_vars, sf_vars, lr_vars >>

\* Lines 253-254: the copied manifest files are removed.
XboxCleanup ==
    /\ pc = "xbox_cleanup"
    /\ stage' = { f \in stage : f[1] \notin { << n >> : n \in manifest_file_collection } }
    /\ pc' = "xbox_check"
    /\ UNCHANGED << inputs, raised, entered, calls, run, destination_exists, destination,
                    locals, gi_vars, sf_vars, lr_vars >>

\* Variant of XboxCheck that raises with the message of another step.
XboxCheckWrongMessage ==
    /\ pc = "xbox_check"
    /\ IF package_success # 0
       THEN Raise("Stage failed") /\ UNCHANGED idx
       ELSE /\ UNCHANGED raised
            /\ IF idx < Len(configurations)
               THEN idx' = idx + 1 /\ pc' = "xbox_begin"
               ELSE idx' = 0 /\ pc' = "done"
    /\ UNCHANGED << inputs, entered, calls, run, files, manifest_file_collection,
                    package_success, destination_before, gi_vars, sf_vars, lr_vars >>

\* Lines 255-256: the tool's status is checked; the loop goes on.
XboxCheck ==
    /\ pc = "xbox_check"
    /\ IF package_success # 0
       THEN Raise("Package failed") /\ UNCHANGED idx
       ELSE /\ UNCHANGED raised
            /\ IF idx < Len(configurations)
               THEN idx' = idx + 1 /\ pc' = "xbox_begin"
               ELSE idx' = 0 /\ pc' = "done"
    /\ UNCHANGED << inputs, entered, calls, run, files, manifest_file_collection,
                    package_success, destination_before, gi_vars, sf_vars, lr_vars >>

\* Lines 258-262: the PS4 tool and title identifier.
PackagePs4Setup ==
    /\ pc = "package_dispatch"
    /\ platform \notin DesktopPlatforms
    /\ platform # "XboxOne"
    /\ platform = "PS4"
    /\ IF "SCE_ROOT_DIR" \notin environ
       THEN Raise("KeyError") /\ UNCHANGED idx
       ELSE IF IniValue("TitleID").raised # "none"
       THEN Raise(IniValue("TitleID").raised) /\ UNCHANGED idx
       ELSE idx' = 1 /\ pc' = "ps4_call" /\ UNCHANGED raised
    /\ UNCHANGED << inputs, entered, calls, run, files, manifest_file_collection,
                    package_success, destination_before, gi_vars, sf_vars, lr_vars >>

title_id == Token(IniValue("TitleID").value)

\* destination_file of the PS4 loop, line 265.
Ps4DestinationFile(c) == << Game, "-", c, "-", title_id, ".pkg" >>

\* A mutant of Ps4Call: a failure is raised only after the last configuration.
Ps4CallContinuing ==
    /\ pc = "ps4_call"
    /\ \E status \in ExitCodes :
         /\ package_success' = status
         /\ calls' = Append(calls, Call("orbis-pub-cmd img_create", current_configuration,
                                        status, Ps4DestinationFile(current_configuration)))
         /\ destination' = IF status = 0
                           THEN Remove(destination, Ps4DestinationFile(current_configuration))
                                \cup Stamp({ Ps4DestinationFile(current_configuration) })
                           ELSE destination
         /\ IF idx < Len(configurations)
            THEN idx' = idx + 1 /\ pc' = "ps4_call" /\ UNCHANGED raised
            ELSE IF status # 0
            THEN Raise("Package failed") /\ UNCHANGED idx
            ELSE idx' = 0 /\ pc' = "done" /\ UNCHANGED raised
    /\ UNCHANGED << inputs, entered, run, stage, destination_exists,
                    manifest_file_collection, destination_before, gi_vars, sf_vars, lr_vars >>

\* One iteration of the PS4 loop, lines 264-276.
Ps4Call ==
    /\ pc = "ps4_call"
    /\ \E status \in ExitCodes :
         /\ package_success' = status
         /\ calls' = Append(calls, Call("orbis-pub-cmd img_create", current_configuration,
                                        status, Ps4DestinationFile(current_configuration)))
         /\ IF status # 0
            THEN Raise("Package failed") /\ UNCHANGED << destination, idx >>
            ELSE /\ destination' = Remove(destination, Ps4DestinationFile(current_configuration))
                                   \cup Stamp({ Ps4DestinationFile(current_configuration) })
                 /\ UNCHANGED raised
                 /\ IF idx < Len(configurations)
                    THEN idx' = idx + 1 /\ pc' = "ps4_call"
                    ELSE idx' = 0 /\ pc' = "done"
    /\ UNCHANGED << inputs, entered, run, stage, destination_exists,
                    manifest_file_collection, destination_before, gi_vars, sf_vars, lr_vars >>

\* A mutant of PackageOther: an unknown platform is packaged like a desktop one.
PackageOtherAsDesktop ==
    /\ pc = "package_dispatch"
    /\ platform \notin DesktopPlatforms
    /\ platform # "XboxOne"
    /\ platform # "PS4"
    /\ calls' = Append(calls, Call("robocopy package", "", 0, << >>))
    /\ destination' = Stamp(Paths(stage))
    /\ pc' = "done"
    /\ UNCHANGED << inputs, raised, entered, run, stage, destination_exists, locals,
                    gi_vars, sf_vars, lr_vars >>

\* No branch of lines 221-276 is for the platform: _package_for_platform returns.
PackageOther ==
    /\ pc = "package_dispatch"
    /\ platform \notin DesktopPlatforms
    /\ platform # "XboxOne"
    /\ platform # "PS4"
    /\ pc' = "done"
    /\ UNCHANGED << inputs, raised, entered, calls, run, files, locals, gi_vars, sf_vars, lr_vars >>

\* The same command line is run again on the tree the last run left.
Rerun ==
    /\ pc \in { "done", "raised" }
    /\ run < MaxRuns
    /\ run' = run + 1
    /\ pc' = "run_initialize"
    /\ raised' = "none" /\ entered' = << >> /\ calls' = << >>
    /\ idx' = 0 /\ manifest_file_collection' = {} /\ package_success' = 0
    /\ destination_before' = {}
    /\ UNCHANGED << inputs, files, gi_vars, sf_vars, lr_vars >>

Next ==
    \/ InitializeCopy \/ InitializeHook \/ Cook
    \/ StageCommand \/ StageXboxRemoveGenerated \/ StageXboxConfiguration
    \/ StageChunks \/ StageLayout \/ StageRename \/ StagePatch
    \/ PackageRecreate \/ PackageDesktop
    \/ PackageXboxSetup \/ XboxBegin \/ XboxCall \/ XboxCleanup \/ XboxCheck
    \/ PackagePs4Setup \/ Ps4Call \/ PackageOther
    \/ Rerun

Spec == Init /\ [][Next]_vars


\* --------------------------------------------- get_ini_value on its own
IniChars == { "a", "b", "=", NL }
KeyChars == { "a", "b" }

Pending == "pending"

InitIni ==
    /\ PipelineIdle
    /\ gi_text \in SeqsUpTo(IniChars, MaxIniLen)
    /\ gi_key \in SeqsUpTo(KeyChars, MaxKeyLen) \ { << >> }
    /\ gi_result = [raised |-> Pending, value |-> << >>]
    /\ sf_text = << >> /\ sf_transform = FALSE /\ sf_platform = "" /\ sf_config = ""
    /\ sf_result = [raised |-> "none", written |-> << >>]
    /\ RevisionIdle

GetIniValue ==
    /\ gi_result.raised = Pending
    /\ gi_result' = get_ini_value(gi_text, gi_key)
    /\ UNCHANGED << inputs, control, files, locals, gi_text, gi_key, sf_vars, lr_vars >>

SpecIni == InitIni /\ [][GetIniValue]_vars

\* ------------------------------------------------ _stage_file on its own
TextTokens == { StartMarker, EndMarker, "x", ConfigField, OtherField }

InitStageFile ==
    /\ PipelineIdle
    /\ gi_text = << >> /\ gi_key = << >> /\ gi_result = [raised |-> "none", value |-> << >>]
    /\ sf_text \in SeqsUpTo(TextTokens, MaxTextLen)
    /\ sf_transform \in BOOLEAN
    /\ sf_platform \in { "Win64", "XboxOne", "PS4" }
    /\ sf_config \in ConfigNames
    /\ sf_result = [raised |-> Pending, written |-> << >>]
    /\ RevisionIdle

StageFile ==
    /\ sf_result.raised = Pending
    /\ sf_result' = stage_file(sf_text, sf_transform, sf_platform, sf_config)
    /\ UNCHANGED << inputs, control, files, locals, gi_vars, sf_text, sf_transform,
                    sf_platform, sf_config, lr_vars >>

SpecStageFile == InitStageFile /\ [][StageFile]_vars

\* ---------------------------------------------------------------------------
\* get_latest_available_revision alone (src/utilities/deployment.py)
\* ---------------------------------------------------------------------------

\* The revisions the version directories may carry: the digit strings that
\* '([0-9]*)' captures from a directory name, as sequences of digits.
Revisions == { << 9 >>, << 1, 0 >>, << 1, 1 >>, << 1, 0, 0 >> }

\* The platforms that have version directories.
RevisionPlatforms == { "Win64", "PS4" }

\* Python's order on strings, for strings of digits: a < b.
RECURSIVE StrLess(_, _)
StrLess(a, b) ==
    IF b = << >> THEN FALSE
    ELSE IF a = << >> THEN TRUE
    ELSE IF a[1] # b[1] THEN a[1] < b[1]
    ELSE StrLess(Tail(a), Tail(b))

StrLessEq(a, b) == a = b \/ StrLess(a, b)

\* all_revisions after sort(reverse = True), line 80; a revision listed for
\* several platforms is kept once, which changes nothing for the first match.
RECURSIVE SortReverse(_)
SortReverse(S) ==
    IF S = {} THEN << >>
    ELSE LET greatest == CHOOSE x \in S : \A y \in S : StrLessEq(y, x)
         IN  << greatest >> \o SortReverse(S \ { greatest })

\* The loop of lines 82-89: the first revision of the sorted list that every
\* platform has and that is not above start_revision, as strings.
RECURSIVE FirstAvailable(_, _, _, _)
FirstAvailable(all_revisions, ps, revs, start) ==
    IF all_revisions = << >> THEN [state |-> "returned", found |-> FALSE, revision |-> << >>]
    ELSE LET revision == Head(all_revisions)
             available_for_all_platforms == \A p \in ps : revision \in revs[p]
         IN  IF available_for_all_platforms
                /\ (~start.given \/ StrLessEq(revision, start.value))
             THEN [state |-> "returned", found |-> TRUE, revision |-> revision]
             ELSE FirstAvailable(Tail(all_revisions), ps, revs, start)

get_latest_available_revision(ps, revs, start) ==
    FirstAvailable(SortReverse(UNION { revs[p] : p \in ps }), ps, revs, start)

InitRevision ==
    /\ PipelineIdle
    /\ gi_text = << >> /\ gi_key = << >> /\ gi_result = [raised |-> "none", value |-> << >>]
    /\ sf_text = << >> /\ sf_transform = FALSE /\ sf_platform = "" /\ sf_config = ""
    /\ sf_result = [raised |-> "none", written |-> << >>]
    /\ platforms \in SUBSET RevisionPlatforms \ { {} }
    /\ platforms_revisions \in [RevisionPlatforms -> SUBSET Revisions]
    /\ start_revision \in { [given |-> FALSE, value |-> << >>] }
                          \cup { [given |-> TRUE, value |-> r] : r \in Revisions }
    /\ lr_result = [state |-> Pending, found |-> FALSE, revision |-> << >>]

GetLatestAvailableRevision ==
    /\ lr_result.state = Pending
    /\ lr_result' = get_latest_available_revision(platforms, platforms_revisions,
                                                  start_revision)
    /\ UNCHANGED << inputs, control, files, locals, gi_vars, sf_vars,
                    platforms, platforms_revisions, start_revision >>

SpecRevision == InitRevision /\ [][GetLatestAvailableRevision]_vars


\* ======================================================================
\* The claims
\* ======================================================================
Last(s) == s[Len(s)]

StepIndex(step) == CHOOSE i \in 1..Len(Steps) : Steps[i] = step

\* The step an external invocation belongs to.
ToolStep(tool) ==
    CASE tool \in { "robocopy Config", "preship" }           -> "initialize"
      [] tool = "UE4Editor-Cmd"                              -> "cook"
      [] tool \in { "AutomationTool", "MakePkg appdata" }    -> "stage"
      [] OTHER                                               -> "package"

\* C1: Package.run enters only selected steps, each at most once and in the
\* order initialize, cook, stage, package, whatever the order of the
\* selection; a run that returns has entered every selected step.
C1_FixedOrder ==
    /\ \A i \in 1..Len(entered) : Selected(entered[i])
    /\ \A i, j \in 1..Len(entered) :
         i < j => StepIndex(entered[i]) < StepIndex(entered[j])
    /\ pc = "done" => entered = SelectSeq(Steps, LAMBDA step : Selected(step))

\* A run given package before cook has entered cook, then package.
C1_Witness ==
    /\ pc = "done"
    /\ steps = << "package", "cook" >>
    /\ entered = << "cook", "package" >>

\* C2 (state part): an invocation that failed is the last thing its step
\* did, the run is raising, and that step is the last one entered; a run
\* that returned saw no failure.
C2_Failed ==
    /\ \A i \in 1..Len(calls) :
         calls[i].exit # 0 =>
           /\ i = Len(calls)
           /\ entered # << >> /\ Last(entered) = ToolStep(calls[i].tool)
           /\ \/ pc = "raised"
              \/ calls[i].tool = "MakePkg pack" /\ pc \in { "xbox_cleanup", "xbox_check" }
    /\ pc = "raised" => raised # "none" /\ entered # << >>
    /\ pc = "done" => raised = "none"

\* C2: a failure in a selected step ends Package.run with a raised error and
\* no later step is entered: once raising, nothing more of the run happens
\* (the only step left is a new invocation of the command), and the failed
\* XboxOne packaging tool leads to the raise through the cleanup alone.
C2_FailureAborts ==
    /\ []C2_Failed
    /\ [][ /\ pc = "raised" => pc' = "run_initialize" /\ run' = run + 1
           /\ pc = "xbox_cleanup" => pc' = "xbox_check" /\ entered' = entered
           /\ pc = "xbox_check" /\ package_success # 0 => pc' = "raised"
         ]_vars

\* The cook failed with stage and package selected: neither was entered.
C2_Witness ==
    /\ pc = "raised" /\ raised = "Cook failed"
    /\ steps = Steps
    /\ entered = << "initialize", "cook" >>
    /\ Last(calls).exit # 0

\* C3: with initialize selected and a target set, a failed bulk copy raises
\* 'Initialize failed' before the pre-ship hook runs and before any later
\* step is entered.
C3_CopyFailureAborts ==
    \A i \in 1..Len(calls) :
      calls[i].tool = "robocopy Config" /\ calls[i].exit # 0 =>
        /\ pc = "raised" /\ raised = "Initialize failed"
        /\ i = Len(calls)
        /\ entered = << "initialize" >>

\* The copy failed although cook was requested.
C3_Witness ==
    /\ target /\ Selected("cook")
    /\ calls # << >> /\ Last(calls).tool = "robocopy Config" /\ Last(calls).exit # 0
    /\ pc = "raised"


\* The names of the stage directory's root that the current XboxOne
\* iteration copied its manifest files to.
ManifestCopies == { << n >> : n \in manifest_file_collection }

\* C4: in XboxOne packaging the manifest files copied into the stage
\* directory are there while the packaging tool runs and are gone once it
\* has returned, whatever its exit status: none is left when the status is
\* checked, when 'Package failed' is raised, or when the step returns.
C4_CleanupBeforeRaise ==
    platform = "XboxOne" =>
      /\ pc \in { "xbox_call", "xbox_cleanup" } => ManifestCopies \subseteq Paths(stage)
      /\ pc = "xbox_check" => Paths(stage) \cap ManifestCopies = {}
      /\ pc = "raised" /\ raised = "Package failed" => Paths(stage) \cap ManifestCopies = {}
      /\ pc = "done" /\ Selected("package") => Paths(stage) \cap ManifestCopies = {}

\* The tool failed for a configuration with manifest files, and the raise
\* found them removed.
C4_Witness ==
    /\ platform = "XboxOne"
    /\ pc = "raised" /\ raised = "Package failed"
    /\ Last(calls).tool = "MakePkg pack" /\ Last(calls).exit # 0
    /\ manifest_file_collection = { "AppxManifest.xml", "appdata.bin" }

\* The atomic names of the configuration string, read off the string itself.
AtomicNames == SelectSeq(configuration, LAMBDA t : t # "+")

PackagingCalls ==
    SelectSeq(calls, LAMBDA c : c.tool \in { "MakePkg pack", "orbis-pub-cmd img_create" })

Unrecognized == platform \notin DesktopPlatforms \cup { "XboxOne", "PS4" }

PackageOver == entered # << >> /\ Last(entered) = "package" /\ pc \in { "done", "raised" }

PackageCalls == SelectSeq(calls, LAMBDA c : ToolStep(c.tool) = "package")

\* C7 as claimed: for an unrecognized platform the package step raises
\* nothing, does nothing and leaves the contents of the destination as they
\* were (stated for a destination that can be removed).
C7_Original ==
    Unrecognized /\ PackageOver /\ ~destination_locked =>
      /\ raised = "none"
      /\ PackageCalls = << >>
      /\ destination = destination_before

\* C7 as amended: for an unrecognized platform the package step invokes no
\* copier and no tool and writes no artifact, but the destination is
\* recreated: a step that returns leaves it existing and empty; the step
\* raises only when the old destination could not be removed.
C7_UnrecognizedRecreates ==
    Unrecognized /\ PackageOver =>
      /\ PackageCalls = << >>
      /\ pc = "done" => raised = "none" /\ destination_exists /\ destination = {}
      /\ pc = "raised" => /\ destination_locked /\ raised = "FileExistsError"
                          /\ destination = destination_before

\* An unrecognized platform's package step returned and the old contents of
\* the destination are gone.
C7_Witness ==
    /\ Unrecognized /\ pc = "done" /\ entered # << >> /\ Last(entered) = "package"
    /\ destination_before # {} /\ destination = {}

IsMarker(t) == t \in { StartMarker, EndMarker }

HasMarker(text) == \E i \in 1..Len(text) : IsMarker(text[i])

\* The markers of a text pair up: start, end, start, end, ...
Balanced(text) ==
    LET m == SelectSeq(text, IsMarker) IN
    /\ Len(m) % 2 = 0
    /\ \A i \in 1..Len(m) : m[i] = IF i % 2 = 1 THEN StartMarker ELSE EndMarker

CountBefore(text, t, i) == Cardinality({ j \in 1..(i - 1) : text[j] = t })

\* The positions of a balanced text that lie outside every span.
Outside(text) ==
    { i \in 1..Len(text) :
        /\ ~IsMarker(text[i])
        /\ CountBefore(text, StartMarker, i) = CountBefore(text, EndMarker, i) }

Kth(S, k) == CHOOSE i \in S : Cardinality({ j \in S : j <= i }) = k

Transformed == sf_transform /\ sf_result.raised = "none"

\* With another configuration than Shipping the token is substituted and
\* nothing else changes.
C8_NoSpanRemoved ==
    Transformed /\ sf_config # "Shipping" =>
      /\ Len(sf_result.written) = Len(sf_text)
      /\ \A i \in 1..Len(sf_text) :
           IF sf_text[i] = ConfigField
           THEN sf_result.written[i] \in { sf_config, Lower(sf_config) }
           ELSE sf_result.written[i] = sf_text[i]

\* C8 as claimed: with Shipping no start or end marker is left in the
\* output, for every input text; with another configuration the token is
\* substituted and no span is removed.
C8_Original ==
    /\ Transformed /\ sf_config = "Shipping" => ~HasMarker(sf_result.written)
    /\ C8_NoSpanRemoved

\* C8 as amended: with Shipping and a text whose markers pair up (every
\* start marker is followed by an end marker before the next start marker,
\* and no end marker comes first) the output is the text outside the spans,
\* with the token substituted, and holds no marker; with another
\* configuration the token is substituted and no span is removed.
C8_BalancedSpansRemoved ==
    /\ Transformed /\ sf_config = "Shipping" /\ Balanced(sf_text) =>
         LET kept == Outside(sf_text) IN
         /\ ~HasMarker(sf_result.written)
         /\ Len(sf_result.written) = Cardinality(kept)
         /\ \A k \in 1..Len(sf_result.written) :
              LET t == sf_text[Kth(kept, k)] IN
              IF t = ConfigField
              THEN sf_result.written[k] \in { sf_config, Lower(sf_config) }
              ELSE sf_result.written[k] = t
    /\ C8_NoSpanRemoved

\* A Shipping text with one span between kept text.
C8_Witness ==
    /\ Transformed /\ sf_config = "Shipping"
    /\ sf_text = << "x", StartMarker, "x", EndMarker >>
    /\ sf_result.written = << "x" >>

\* The positions where a line of the ini text begins, and the line there.
IniLineStarts == { p \in 1..Len(gi_text) : p = 1 \/ gi_text[p - 1] = NL }

IniLineEnd(p) ==
    CHOOSE e \in p..(Len(gi_text) + 1) :
      /\ e = Len(gi_text) + 1 \/ gi_text[e] = NL
      /\ \A j \in p..(e - 1) : gi_text[j] # NL

IniLine(p) == SubSeq(gi_text, p, IniLineEnd(p) - 1)

StartsWith(line, pat) == Len(pat) <= Len(line) /\ SubSeq(line, 1, Len(pat)) = pat

IniMatches == { p \in IniLineStarts : StartsWith(IniLine(p), gi_key \o << "=" >>) }

\* C9: get_ini_value returns the rest of the first line that starts with
\* 'key=', exactly, and raises KeyError when no line starts with 'key=' (a
\* line whose name only ends or only begins with the key is no such line).
C9_IniValue ==
    gi_result.raised # Pending =>
      IF IniMatches = {}
      THEN gi_result.raised = "KeyError"
      ELSE /\ gi_result.raised = "none"
           /\ \E p \in IniMatches :
                /\ \A q \in IniMatches : p <= q
                /\ gi_key \o << "=" >> \o gi_result.value = IniLine(p)

\* The key is found on the second line, after a line of another key.
C9_Witness ==
    /\ gi_key = << "a" >>
    /\ gi_text = << "b", "a", "=", NL, "a", "=" >>
    /\ gi_result = [raised |-> "none", value |-> << >>]

Ps4Calls == SelectSeq(calls, LAMBDA c : c.tool = "orbis-pub-cmd img_create")

\* C10: in PS4 packaging each invocation of the publishing tool is for the
\* next atomic name C and writes '<game>-<C>-<TitleID>.pkg' of the
\* destination; a failed invocation is raised as 'Package failed' at once:
\* it is the last invocation, and the artifacts of the configurations before
\* it stay where they are; a step that returns invoked the tool once for
\* each atomic name.
C10_Ps4Packaging ==
    platform = "PS4" =>
      /\ \A i \in 1..Len(Ps4Calls) :
           /\ i <= Len(AtomicNames)
           /\ Ps4Calls[i].cfg = AtomicNames[i]
           /\ Ps4Calls[i].out = << Game, "-", AtomicNames[i], "-", "T1", ".pkg" >>
           /\ Ps4Calls[i].exit # 0 =>
                /\ i = Len(Ps4Calls)
                /\ pc = "raised" /\ raised = "Package failed"
                /\ destination =
                     { << Ps4Calls[j].out, run >> : j \in 1..(i - 1) }
      /\ pc = "done" /\ Selected("package") => Len(Ps4Calls) = Len(AtomicNames)

\* Debug was packaged, Shipping failed: raised with Debug's artifact in place.
C10_Witness ==
    /\ platform = "PS4"
    /\ configuration = << "Debug", "+", "Shipping" >>
    /\ pc = "raised" /\ raised = "Package failed"
    /\ Len(Ps4Calls) = 2 /\ Ps4Calls[1].exit = 0 /\ Ps4Calls[2].exit # 0
    /\ destination = { << << Game, "-", "Debug", "-", "T1", ".pkg" >>, run >> }

\* ---------------------------------------------------------------------------
\* Claims about the stage step
\* ---------------------------------------------------------------------------

\* The stage step of this run has completed without raising.
StageSucceeded ==
    /\ "stage" \in Range(entered)
    /\ \/ pc \in { "run_package", "package_dispatch", "xbox_begin", "xbox_call",
                   "xbox_cleanup", "xbox_check", "ps4_call", "done" }
       \/ pc = "raised" /\ Last(entered) = "package"

\* The layout files of a stage tree: '<project>-<anything>.xml' or '.gp4'.
LayoutFiles(tree) ==
    { p \in Paths(tree) : Len(p) = 4 /\ p[1] = "Game" /\ p[2] = "-"
                                     /\ p[4] \in { ".xml", ".gp4" } }

\* C11: when the stage step succeeds with a layout file path supplied, the
\* stage directory holds exactly one layout file per atomic configuration,
\* named '<project>-<configuration>.xml' ('.gp4' on PS4), each transformed
\* under its own configuration: the Shipping file has the debug-only span
\* removed, the file of any other configuration keeps it, and each carries its
\* own configuration name in place of the placeholder.
C11_LayoutPerConfiguration ==
    (StageSucceeded /\ layout) =>
        /\ LayoutFiles(stage) =
               { << "Game", "-", c, IF platform = "PS4" THEN ".gp4" ELSE ".xml" >>
                 : c \in Range(AtomicNames) }
        /\ \A p \in LayoutFiles(stage) :
             LET written == Content(stage, p)
             IN  /\ written[1] = "chunks"
                 /\ HasMarker(written) <=> p[3] # "Shipping"
                 /\ "symbols" \in Range(written) <=> p[3] # "Shipping"
                 /\ Last(written) = IF platform # "PS4" THEN p[3]
                                    ELSE IF p[3] = "Debug" THEN "debug" ELSE "shipping"

C11_Witness ==
    /\ StageSucceeded /\ layout /\ platform = "XboxOne"
    /\ configuration = << "Debug", "+", "Shipping" >>
    /\ Content(stage, << "Game", "-", "Debug", ".xml" >>)
         = << "chunks", StartMarker, "symbols", EndMarker, "Debug" >>
    /\ Content(stage, << "Game", "-", "Shipping", ".xml" >>) = << "chunks", "Shipping" >>

\* The message of the RuntimeError each step raises (lines 99, 102, 118, 136,
\* 190, 226, 256, 276).
StepMessage(step) ==
    CASE step = "initialize" -> "Initialize failed"
      [] step = "cook"       -> "Cook failed"
      [] step = "stage"      -> "Stage failed"
      [] step = "package"    -> "Package failed"

\* The run failed on a tool or copier that reported failure through its
\* result: nothing ran after the failing invocation.
ReportedFailure == calls # << >> /\ Last(calls).exit # 0

\* Errors the file operations, the environment lookup, the text formatting and
\* the ini lookup raise themselves.
PropagatedErrors == { "KeyError", "FileExistsError", "FileNotFoundError", "OSError" }

\* C12 as stated: whenever the run ends in a failure during a step, the error
\* raised carries the message naming that step, whatever the kind of failure.
C12_Original ==
    pc = "raised" => raised = StepMessage(Last(entered))

\* C12: a run that ends in failure because a bulk copy, the hook or an external
\* tool reported failure raises the message naming the step that was running;
\* every other failure is the error of the failing operation, raised as it is
\* and without the step's message.
C12_ReportedFailuresNameStep ==
    pc = "raised" =>
        /\ entered # << >>
        /\ IF ReportedFailure
           THEN /\ raised = StepMessage(Last(entered))
                /\ ToolStep(Last(calls).tool) = Last(entered)
           ELSE raised \in PropagatedErrors

C12_Witness ==
    /\ pc = "raised" /\ raised = "KeyError"
    /\ Last(entered) = "package" /\ platform = "XboxOne"
    /\ "DurangoXDK" \in environ /\ ini_content = BadIni
    /\ calls = << >>

\* C13: whenever a package step on XboxOne ends in failure, for any cause, no
\* manifest file that the step copied up one level remains in the root of the
\* stage directory.
C13_NoStrayManifestCopies ==
    (platform = "XboxOne" /\ pc = "raised" /\ entered # << >> /\ Last(entered) = "package") =>
        \A n \in manifest_file_collection : ~Exists(stage, << n >>)

\* The staging command of this run exited with a non-zero status.
StagingCommandFailed ==
    \E i \in 1..Len(calls) : calls[i].tool = "AutomationTool" /\ calls[i].exit # 0

\* C14: a non-zero exit status of the staging command aborts the stage step
\* before any post-staging action: the step raises 'Stage failed' at once, the
\* failed invocation is the last one of the run, and the stage directory is
\* left as the staging command left it (no generated file deleted, no manifest
\* directory or chunk file created, no layout staged, no binary renamed, no
\* pak copied), until another run starts.
C14_StagingFailureAborts ==
    /\ [](StagingCommandFailed =>
            /\ pc = "raised" /\ raised = "Stage failed"
            /\ Last(calls).tool = "AutomationTool"
            /\ Last(entered) = "stage")
    /\ [][(pc = "run_stage" /\ calls' # calls /\ Last(calls').exit # 0) =>
            (pc' = "raised" /\ stage' = stage)]_vars
    /\ [][pc = "raised" => stage' = stage]_vars

C14_Witness ==
    /\ StagingCommandFailed /\ pc = "raised" /\ run = 1
    /\ platform = "XboxOne" /\ layout /\ patch
    /\ stage = StagedTree
    /\ ~Exists(stage, << "LaunchChunk.bin" >>)
    /\ LayoutFiles(stage) = {}

\* The staging command of this run has succeeded and the stage step is at its
\* post-staging actions or has raised in them.
InStage ==
    /\ entered # << >> /\ Last(entered) = "stage"
    /\ ~StagingCommandFailed
    /\ pc \in { "stage_xbox_manifest", "stage_xbox_configuration", "stage_chunks",
                "stage_layout", "stage_rename", "stage_patch", "raised" }

\* The invocations of the app-data command in this run, in order.
AppDataCalls == SelectSeq(calls, LAMBDA c : c.tool = "MakePkg appdata")

ChunkFiles == { << "LaunchChunk.bin" >>, << "AlignmentChunk.bin" >> }

\* C15: in the post-staging fix-up on XboxOne the root AppxManifest.xml and
\* appdata.bin are deleted before anything else; then, for the atomic
\* configurations in order, Manifests/<configuration> is created, the manifest
\* is staged into it transformed under that configuration, and the app-data
\* command is invoked on that directory; a non-zero exit for one configuration
\* raises 'Stage failed', so no later configuration is processed and neither
\* the chunk files nor the layout files are created.
C15_XboxFixUpOrder ==
    (platform = "XboxOne" /\ InStage) =>
        LET n == Len(AppDataCalls)
        IN  /\ n <= Len(AtomicNames)
            /\ (n >= 1 \/ pc = "stage_xbox_configuration") =>
                   /\ ~Exists(stage, << "AppxManifest.xml" >>)
                   /\ ~Exists(stage, << "appdata.bin" >>)
            /\ \A i \in 1..n :
                 /\ AppDataCalls[i].cfg = AtomicNames[i]
                 /\ AppDataCalls[i].out = << "Manifests", AtomicNames[i] >>
                 /\ Exists(stage, << "Manifests", AtomicNames[i] >>)
                 /\ Content(stage, << "Manifests", AtomicNames[i], "AppxManifest.xml" >>)
                      = IF AtomicNames[i] = "Shipping" THEN << "Shipping", "app" >>
                        ELSE << AtomicNames[i], StartMarker, "dbg", EndMarker, "app" >>
                 /\ i < n => AppDataCalls[i].exit = 0
            /\ (n >= 1 /\ AppDataCalls[n].exit # 0) =>
                   /\ pc = "raised" /\ raised = "Stage failed"
                   /\ Last(calls) = AppDataCalls[n]
                   /\ \A j \in (n + 1)..Len(AtomicNames) :
                        AtomicNames[j] \notin { AtomicNames[i] : i \in 1..n } =>
                            ~Exists(stage, << "Manifests", AtomicNames[j] >>)
                   /\ ChunkFiles \cap Paths(stage) = {}
                   /\ LayoutFiles(stage) = {}
            /\ ChunkFiles \cap Paths(stage) # {} =>
                   /\ n = Len(AtomicNames)
                   /\ \A i \in 1..n : AppDataCalls[i].exit = 0

C15_Witness ==
    /\ platform = "XboxOne" /\ InStage /\ layout
    /\ configuration = << "Shipping", "+", "Debug" >>
    /\ Len(AppDataCalls) = 1 /\ AppDataCalls[1].exit # 0
    /\ pc = "raised" /\ raised = "Stage failed"
    /\ Content(stage, << "Manifests", "Shipping", "AppxManifest.xml" >>) = << "Shipping", "app" >>
    /\ ~Exists(stage, << "Manifests", "Debug" >>)

\* C16 as stated: after a successful stage step on XboxOne the stage directory
\* contains LaunchChunk.bin and AlignmentChunk.bin, each of length zero.
C16_Original ==
    (platform = "XboxOne" /\ StageSucceeded) =>
        \A f \in ChunkFiles : Exists(stage, f) /\ Len(Content(stage, f)) = 0

\* C16: after a successful stage step on XboxOne the stage directory contains
\* LaunchChunk.bin and AlignmentChunk.bin, and each holds exactly one
\* character, the NUL character.
C16_ChunkFilesHoldOneNul ==
    (platform = "XboxOne" /\ StageSucceeded) =>
        \A f \in ChunkFiles :
            /\ Exists(stage, f)
            /\ Len(Content(stage, f)) = 1
            /\ Content(stage, f)[1] = "\\0"

C16_Witness ==
    /\ platform = "XboxOne" /\ StageSucceeded /\ pc = "run_package"
    /\ Content(stage, << "LaunchChunk.bin" >>) = << "\\0" >>
    /\ Content(stage, << "AlignmentChunk.bin" >>) = << "\\0" >>

\* ---------------------------------------------------------------------------
\* Claims about the substituted configuration name
\* ---------------------------------------------------------------------------

\* The configuration names in lower case, as str.lower gives them.
LowerCased(name) == IF name = "Debug" THEN "debug" ELSE "shipping"

\* The text _stage_file wrote has, at every {configuration} token of a source
\* without debug-only markers, the given value, and the source's own token
\* everywhere else.
SubstitutedWith(value) ==
    /\ Len(sf_result.written) = Len(sf_text)
    /\ \A i \in 1..Len(sf_text) :
         sf_result.written[i] = IF sf_text[i] = ConfigField THEN value ELSE sf_text[i]

\* C17 as stated: with apply_transform true the value substituted for the
\* {configuration} token is the lower-cased configuration name if and only if
\* the platform is XboxOne, and the unchanged name on every other platform.
C17_Original ==
    (Transformed /\ ~HasMarker(sf_text)) =>
        SubstitutedWith(IF sf_platform = "XboxOne" THEN LowerCased(sf_config) ELSE sf_config)

\* C17: with apply_transform true the value substituted for the
\* {configuration} token is the lower-cased configuration name if and only if
\* the platform is PS4, and the unchanged name on every other platform,
\* XboxOne included.
C17_LowerCasedOnPs4 ==
    (Transformed /\ ~HasMarker(sf_text)) =>
        SubstitutedWith(IF sf_platform = "PS4" THEN LowerCased(sf_config) ELSE sf_config)

C17_Witness ==
    /\ Transformed /\ sf_platform = "PS4" /\ sf_config = "Debug"
    /\ sf_text = << "x", ConfigField >>
    /\ sf_result.written = << "x", "debug" >>

\* ---------------------------------------------------------------------------
\* Claims about the renamed binary and the patch
\* ---------------------------------------------------------------------------

\* The staged binaries of a tree without and with a suffix after the project
\* name.
UnsuffixedBinaries(tree) ==
    { p \in Paths(tree) : Len(p) = 6 /\ p[5] = "" /\ p[6] \in { ".self", ".exe" } }

SuffixedBinaries(tree) ==
    { p \in Paths(tree) : Len(p) = 6 /\ p[5] # "" /\ p[6] \in { ".self", ".exe" } }

Suffixed(p) ==
    [ p EXCEPT ![5] = IF platform = "PS4" THEN "-ps4-development"
                      ELSE "-XboxOne-Development" ]

\* C18: in the stage step on a console platform the binary is renamed if and
\* only if the un-suffixed binary exists: when it exists it is moved to the
\* suffixed name with its content and nothing else changes, when it does not
\* nothing is renamed and no error is raised; after a successful stage step
\* the un-suffixed binary never exists.
C18_RenameIffExists ==
    /\ [][(pc = "stage_rename" /\ Console) =>
            /\ pc' = "stage_patch" /\ raised' = raised
            /\ IF UnsuffixedBinaries(stage) # {}
               THEN /\ UnsuffixedBinaries(stage') = {}
                    /\ SuffixedBinaries(stage') =
                           { Suffixed(p) : p \in UnsuffixedBinaries(stage) }
                    /\ \A p \in UnsuffixedBinaries(stage) :
                           Content(stage', Suffixed(p)) = Content(stage, p)
                    /\ { f \in stage' : f[1] \notin SuffixedBinaries(stage') }
                           = { f \in stage : f[1] \notin UnsuffixedBinaries(stage) }
               ELSE stage' = stage]_vars
    /\ []((Console /\ StageSucceeded) => UnsuffixedBinaries(stage) = {})

C18_Witness ==
    /\ pc = "stage_patch" /\ platform = "PS4" /\ InStage
    /\ UnsuffixedBinaries(stage) = {}
    /\ \E p \in SuffixedBinaries(stage) :
         p[5] = "-ps4-development" /\ Content(stage, p) = << "binary" >>

\* C19 as stated: XboxOne gets the same rename treatment as PS4: the binary
\* path looked up and renamed is the lower-cased
\* '<project>/Binaries/<platform>/<project>' path, only the suffix differing.
C19_Original ==
    platform = "XboxOne" =>
        \A p \in SuffixedBinaries(stage) :
            /\ SubSeq(p, 1, 4) = << "game", "binaries", "xboxone", "game" >>
            /\ p[5] = "-XboxOne-Development"

\* C19: on both consoles the binary '<project>/Binaries/<platform>/<project>'
\* is renamed to carry a suffix, but the path is lower-cased on PS4 only: on
\* XboxOne it is used as written, and the suffix and the extension differ
\* ('-ps4-development.self' on PS4, '-XboxOne-Development.exe' on XboxOne).
C19_LowerCasedPathOnPs4Only ==
    Console =>
        \A p \in SuffixedBinaries(stage) :
            p = IF platform = "PS4"
                THEN << "game", "binaries", "ps4", "game", "-ps4-development", ".self" >>
                ELSE << "Game", "Binaries", "XboxOne", "Game", "-XboxOne-Development", ".exe" >>

C19_Witness ==
    /\ platform = "XboxOne" /\ pc = "stage_patch" /\ InStage
    /\ Exists(stage, << "Game", "Binaries", "XboxOne", "Game", "-XboxOne-Development", ".exe" >>)
    /\ UnsuffixedBinaries(stage) = {}

\* The platform token of the release and pak paths.
PlatformToken == IF platform = "Win64" THEN "WindowsNoEditor" ELSE platform

\* '<stage>/<project>/Content/Paks/<project>-<platform token>.pak'.
StagedPak == << "Game", "Content", "Paks", "Game", "-", PlatformToken, ".pak" >>

\* What 'Releases/<V>/<platform token>/<project>-<platform token>.pak' holds.
ReleasedPak ==
    Content(ReleaseTree(TRUE),
            << "Releases", "V1", PlatformToken, "Game", "-", PlatformToken, ".pak" >>)

\* C20: with a patch version and a successful stage step, the release's pak
\* 'Releases/<V>/<token>/<project>-<token>.pak' is copied as it is, over any
\* file already there, to '<stage>/<project>/Content/Paks/', the token being
\* WindowsNoEditor for Win64 and the platform otherwise; without a patch
\* version nothing is copied; the copy is the last action of the stage step,
\* after the fix-ups, the layout files and the rename.
C20_PatchCopiesReleasePak ==
    /\ [][pc = "stage_patch" =>
            /\ pc' \in { "run_package", "raised" }
            /\ IF patch /\ pc' = "run_package"
               THEN /\ Exists(stage, StagedPak)
                    /\ stage' = { f \in stage : f[1] # StagedPak }
                                \cup { << StagedPak, ReleasedPak >> }
               ELSE stage' = stage]_vars
    /\ [](StageSucceeded =>
            Content(stage, StagedPak) = IF patch THEN ReleasedPak ELSE << "staged pak" >>)
    /\ []((pc = "stage_patch" /\ InStage) =>
            /\ Console => UnsuffixedBinaries(stage) = {}
            /\ layout => LayoutFiles(stage) # {}
            /\ platform = "XboxOne" => ChunkFiles \subseteq Paths(stage))

C20_Witness ==
    /\ StageSucceeded /\ patch /\ platform = "Win64" /\ pc = "run_package"
    /\ Content(stage, << "Game", "Content", "Paks", "Game", "-", "WindowsNoEditor", ".pak" >>)
         = << "release", "WindowsNoEditor", ConfigField, StartMarker, "v1", EndMarker >>

\* ---------------------------------------------------------------------------
\* Claims about the destination and about the deployed revision
\* ---------------------------------------------------------------------------

RECURSIVE Value(_)
Value(r) == IF r = << >> THEN 0 ELSE 10 * Value(SubSeq(r, 1, Len(r) - 1)) + r[Len(r)]

\* The revisions every requested platform has and that do not exceed
\* start_revision as numbers (all of them when start_revision is None).
Eligible ==
    { r \in Revisions :
        /\ \A p \in platforms : r \in platforms_revisions[p]
        /\ start_revision.given => Value(r) <= Value(start_revision.value) }

\* C22: get_latest_available_revision returns the numerically greatest
\* revision that every requested platform has and that does not exceed
\* start_revision (any revision when start_revision is None), and returns None
\* exactly when there is no such revision, also when the revisions have
\* different numbers of digits.
C22_NumericallyGreatest ==
    lr_result.state = "returned" =>
        IF Eligible = {} THEN ~lr_result.found
        ELSE /\ lr_result.found
             /\ lr_result.revision \in Eligible
             /\ \A r \in Eligible : Value(r) <= Value(lr_result.revision)

====
